---- MODULE Spec2Model ----
(***************************************************************************)
(* A model of the curriculum code of lcswillems/sophisticated-curriculum:  *)
(*   - the distribution computers of src/multienv/dist_computer.py         *)
(*     (DistComputer, LpPotDistComputer, LpPotRrDistComputer,              *)
(*     NlpPotMancRdDistComputer), with the numpy arrays they hold and the  *)
(*     views ("[:]") that make several attributes share one buffer;        *)
(*   - the multi-environment wrapper MEnv of src/menv/menv.py.             *)
(* Numbers are exact rationals <<numerator, denominator>>; the float nan   *)
(* that numpy produces for 0/0 is the value NaN.                           *)
(***************************************************************************)
EXTENDS Integers, Sequences, FiniteSets, TLC

(***************************************************************************)
(* Bounds of the model.                                                    *)
(***************************************************************************)
\* number of tasks (nodes of G, entries of every array)
NumEnvs == 3
\* number of __call__ invocations explored
MaxStep == 2
\* largest window size K a computer is constructed with
MaxK == 2
\* largest return value fed to a computer (values are 0..MaxRet)
MaxRet == 2

Tasks == 0 .. (NumEnvs - 1)

(***************************************************************************)
(* Exact rational arithmetic, standing for numpy's float64 arithmetic.     *)
(***************************************************************************)
Abs(a) == IF a < 0 THEN -a ELSE a

RECURSIVE GCD(_, _)
GCD(a, b) == IF b = 0 THEN a ELSE GCD(b, a % b)

NaN == <<0, 0>>

Norm(n, d) ==
  IF d = 0 THEN NaN
  ELSE LET g == GCD(Abs(n), Abs(d))
           s == IF d < 0 THEN -1 ELSE 1
       IN  <<(s * n) \div g, (s * d) \div g>>

R(n) == <<n, 1>>

IsNaN(x) == x[2] = 0

RAdd(x, y) == IF IsNaN(x) \/ IsNaN(y) THEN NaN
              ELSE Norm(x[1] * y[2] + y[1] * x[2], x[2] * y[2])

RNeg(x) == IF IsNaN(x) THEN NaN ELSE <<-x[1], x[2]>>

RSub(x, y) == RAdd(x, RNeg(y))

RMul(x, y) == IF IsNaN(x) \/ IsNaN(y) THEN NaN
              ELSE Norm(x[1] * y[1], x[2] * y[2])

\* 0/0 is nan; the code never divides a non-zero number by zero (every other
\* division is guarded or has a non-zero numerator only with a non-zero divisor)
RDiv(x, y) == IF IsNaN(x) \/ IsNaN(y) THEN NaN
              ELSE Norm(x[1] * y[2], x[2] * y[1])

\* a bug: the absolute value is forgotten
RAbsNone(x) == x
RAbs(x) == IF IsNaN(x) THEN NaN ELSE <<Abs(x[1]), x[2]>>

\* comparisons with nan are false, as in IEEE arithmetic
RLt(x, y) == ~IsNaN(x) /\ ~IsNaN(y) /\ x[1] * y[2] < y[1] * x[2]
RLeq(x, y) == ~IsNaN(x) /\ ~IsNaN(y) /\ x[1] * y[2] <= y[1] * x[2]

\* Python's builtin min(a, b) and max(a, b): the first argument unless the
\* second is smaller (larger)
PyMin(a, b) == IF RLt(b, a) THEN b ELSE a
\* a bug: the candidate is the window mean, whatever the saved bound
PyMaxSecond(a, b) == b
PyMax(a, b) == IF RLt(a, b) THEN b ELSE a

\* numpy.minimum / numpy.maximum of two numbers: nan propagates
NpMinimum(a, b) == IF IsNaN(a) \/ IsNaN(b) THEN NaN ELSE PyMin(a, b)
NpMaximum(a, b) == IF IsNaN(a) \/ IsNaN(b) THEN NaN ELSE PyMax(a, b)

RECURSIVE RPow(_, _)
\* x ** p for an integer p >= 0; numpy gives nan ** 0 = 1
RPow(x, p) == IF p = 0 THEN R(1) ELSE RMul(x, RPow(x, p - 1))

RECURSIVE SeqSum(_)
SeqSum(s) == IF s = <<>> THEN R(0) ELSE RAdd(s[1], SeqSum(Tail(s)))

\* a bug: the sum of the window instead of its mean
NpMeanSum(s) == SeqSum(s)
\* numpy.mean of a non-empty sequence
NpMean(s) == RDiv(SeqSum(s), R(Len(s)))

RECURSIVE SumOver(_, _)
\* numpy.sum of the entries of array a at the indices of S
SumOver(a, S) == IF S = {} THEN R(0)
                 ELSE LET i == CHOOSE j \in S : TRUE
                      IN  RAdd(a[i], SumOver(a, S \ {i}))

RECURSIVE AMinOver(_, _)
\* numpy.amin(a[S]) for a non-empty index set S
AMinOver(a, S) == LET i == CHOOSE j \in S : TRUE
                  IN  IF S = {i} THEN a[i]
                      ELSE NpMinimum(a[i], AMinOver(a, S \ {i}))

RECURSIVE AMaxOver(_, _)
\* numpy.amax(a[S]) for a non-empty index set S
AMaxOver(a, S) == LET i == CHOOSE j \in S : TRUE
                  IN  IF S = {i} THEN a[i]
                      ELSE NpMaximum(a[i], AMaxOver(a, S \ {i}))

(***************************************************************************)
(* State.                                                                  *)
(***************************************************************************)
VARIABLES
  \* --- a distribution computer (src/multienv/dist_computer.py) ---
  kind,            \* the class of the computer
  K,               \* self.K
  G,               \* self.G: the set of edges <<u, v>> (u is a predecessor of v)
  tr,              \* self.tr
  pot_coef,        \* self.pot_coef
  power,           \* self.power
  step,            \* self.step
  return_hists,    \* self.return_hists: per task, a sequence of <<step, return>>
  mem,             \* the numpy buffers: buffer id -> array
  ref,             \* attribute name -> id of the buffer it reads and writes
  lps,             \* self.lps: what compute_lp() returned in the last call
  pre_attentions,  \* the value of self.attentions when it was computed
  create_dist_arg, \* the array handed to create_dist in the last call
  call_returns,    \* the returns mapping of the last call
  \* --- the multi-environment wrapper (src/menv/menv.py) ---
  env_id,          \* self.env_id
  env,             \* self.env
  returnn,         \* self.returnn
  returns,         \* self.returns: the pending returns, task id -> sequence
  dist,            \* self.dist
  menv_lps,        \* self.lps
  configured,      \* compute_lp is not None and compute_dist is not None
  compute_lp_arg,  \* the mapping the last step handed to compute_lp; None if it
                   \* made no such call
  rewards,         \* the rewards env.step returned since the last reset
  since_update,    \* per task, the returns reset() flushed since the last update_dist
  op               \* the operation that made the last step

dcVars == <<kind, K, G, tr, pot_coef, power, step, return_hists, mem, ref, lps,
            pre_attentions, create_dist_arg, call_returns>>
menvVars == <<env_id, env, returnn, returns, dist, menv_lps, configured,
              compute_lp_arg, rewards, since_update, op>>
vars == <<dcVars, menvVars>>

\* python's None, and the mark of a task that is no key of a mapping
None == <<>>

(***************************************************************************)
(* The return histories (the ReturnHistory collaborator).                  *)
(***************************************************************************)
\* return_hists[i].append(step, returnn)
HistAppend(h, st, v) == Append(h, <<st, v>>)

\* _, returns = return_hists[i][-k:] : the returns of the last k entries
\* (all of them when there are fewer than k)
HistLast(h, k) ==
  LET n == Len(h)
      from == IF n > k THEN n - k + 1 ELSE 1
  IN  [j \in 1 .. (n - from + 1) |-> h[from + j - 1][2]]

(***************************************************************************)
(* The task graph (the networkx collaborator).                             *)
(***************************************************************************)
Predecessors(g, v) == {u \in Tasks : <<u, v>> \in g}
Successors(g, v) == {w \in Tasks : <<v, w>> \in g}

RECURSIVE BackReach(_, _, _)
BackReach(g, S, n) ==
  IF n = 0 THEN S
  ELSE BackReach(g, S \cup {u \in Tasks : \E w \in S : <<u, w>> \in g}, n - 1)

\* a bug: a task counts among its own ancestors
AncestorsInclusive(g, v) == BackReach(g, {v}, NumEnvs)
\* nx.ancestors(G, v): every node with a path to v
Ancestors(g, v) == BackReach(g, Predecessors(g, v), NumEnvs)

\* the orders nx.topological_sort(G) may produce
TopologicalSorts(g) ==
  {o \in [1 .. NumEnvs -> Tasks] :
     /\ \A a, b \in 1 .. NumEnvs : a # b => o[a] # o[b]
     /\ \A a, b \in 1 .. NumEnvs : <<o[a], o[b]>> \in g => a < b}

\* a bug: the order is not reversed
ReversedNot(o) == o
\* reversed(list(...))
Reversed(o) == [j \in 1 .. Len(o) |-> o[Len(o) + 1 - j]]

(***************************************************************************)
(* DistComputer.__call__: the shared ingest step.                          *)
(***************************************************************************)
\* a bug: the round counter is incremented after the returns are recorded
DistComputerCallStale(hists, st, rets) ==
  [step |-> st + 1,
   return_hists |-> [i \in Tasks |->
       IF rets[i] = None THEN hists[i]
       ELSE HistAppend(hists[i], st, rets[i])]]

\* a bug: a task that is no key of the mapping is recorded again with its
\* previous return
DistComputerCallRepeat(hists, st, rets) ==
  [step |-> st + 1,
   return_hists |-> [i \in Tasks |->
       IF rets[i] = None
       THEN (IF hists[i] = <<>> THEN hists[i]
             ELSE HistAppend(hists[i], st + 1, hists[i][Len(hists[i])][2]))
       ELSE HistAppend(hists[i], st + 1, rets[i])]]

\* rets maps each task to its value, or to None when it is no key of returns
DistComputerCall(hists, st, rets) ==
  [step |-> st + 1,
   return_hists |-> [i \in Tasks |->
       IF rets[i] = None THEN hists[i]
       ELSE HistAppend(hists[i], st + 1, rets[i])]]

(***************************************************************************)
(* update_returns of the three computers. m is the memory, r the           *)
(* attribute -> buffer map; the loop runs from task i on.                  *)
(***************************************************************************)
RECURSIVE LpPotUpdateReturns(_, _, _, _, _)
LpPotUpdateReturns(m, r, hists, k, i) ==
  IF i >= NumEnvs THEN m
  ELSE
    LET rs == HistLast(hists[i], k)
        m1 == [m EXCEPT ![r.returns][i] = rs[Len(rs)]]
        mean_return == NpMean(rs)
        m2 == [m1 EXCEPT ![r.max_returns][i] =
                 PyMax(m1[r.saved_max_returns][i], mean_return)]
        m3 == IF Len(rs) >= k
              THEN [m2 EXCEPT ![r.saved_max_returns][i] = m2[r.max_returns][i]]
              ELSE m2
    IN  LpPotUpdateReturns(IF Len(rs) > 0 THEN m3 ELSE m, r, hists, k, i + 1)

RECURSIVE LpPotRrUpdateReturnsSwapped(_, _, _, _, _)
\* a bug: the two candidate bounds are assigned to each other's attribute
LpPotRrUpdateReturnsSwapped(m, r, hists, k, i) ==
  IF i >= NumEnvs THEN m
  ELSE
    LET rs == HistLast(hists[i], k)
        m1 == [m EXCEPT ![r.returns][i] = rs[Len(rs)]]
        mean_return == NpMean(rs)
        m2 == [m1 EXCEPT ![r.max_returns][i] =
                 PyMin(m1[r.saved_min_returns][i], mean_return)]
        m3 == [m2 EXCEPT ![r.min_returns][i] =
                 PyMax(m1[r.saved_max_returns][i], mean_return)]
        m4 == [m3 EXCEPT ![r.saved_min_returns][i] = m3[r.min_returns][i]]
        m5 == [m4 EXCEPT ![r.saved_max_returns][i] = m4[r.max_returns][i]]
    IN  LpPotRrUpdateReturnsSwapped(
          IF Len(rs) > 0 THEN (IF Len(rs) >= k THEN m5 ELSE m3) ELSE m,
          r, hists, k, i + 1)

RECURSIVE LpPotRrUpdateReturns(_, _, _, _, _)
LpPotRrUpdateReturns(m, r, hists, k, i) ==
  IF i >= NumEnvs THEN m
  ELSE
    LET rs == HistLast(hists[i], k)
        m1 == [m EXCEPT ![r.returns][i] = rs[Len(rs)]]
        mean_return == NpMean(rs)
        m2 == [m1 EXCEPT ![r.min_returns][i] =
                 PyMin(m1[r.saved_min_returns][i], mean_return)]
        m3 == [m2 EXCEPT ![r.max_returns][i] =
                 PyMax(m2[r.saved_max_returns][i], mean_return)]
        m4 == [m3 EXCEPT ![r.saved_min_returns][i] = m3[r.min_returns][i]]
        m5 == [m4 EXCEPT ![r.saved_max_returns][i] = m4[r.max_returns][i]]
    IN  LpPotRrUpdateReturns(
          IF Len(rs) > 0 THEN (IF Len(rs) >= k THEN m5 ELSE m3) ELSE m,
          r, hists, k, i + 1)

RECURSIVE NlpPotMancRdUpdateReturns(_, _, _, _, _)
NlpPotMancRdUpdateReturns(m, r, hists, k, i) ==
  IF i >= NumEnvs THEN m
  ELSE
    LET rs == HistLast(hists[i], k)
        m1 == [m EXCEPT ![r.returns][i] = rs[Len(rs)]]
        mean_return == NpMean(rs)
        m2 == [m1 EXCEPT ![r.min_returns][i] =
                 PyMin(m1[r.saved_min_returns][i], mean_return)]
        m3 == [m2 EXCEPT ![r.max_returns][i] =
                 PyMax(m2[r.saved_max_returns][i], mean_return)]
        m4 == [m3 EXCEPT ![r.saved_min_returns][i] = m3[r.min_returns][i]]
        m5 == [m4 EXCEPT ![r.saved_max_returns][i] = m4[r.max_returns][i]]
    IN  NlpPotMancRdUpdateReturns(
          IF Len(rs) > 0 THEN (IF Len(rs) >= k THEN m5 ELSE m3) ELSE m,
          r, hists, k, i + 1)

(***************************************************************************)
(* The computations of __call__ after update_returns.                      *)
(***************************************************************************)
\* a bug: the clip is forgotten
NpClipNone(a, lo, hi) == a
\* numpy.clip(a, lo, hi) on one entry: minimum(maximum(a, lo), hi)
NpClip(a, lo, hi) == NpMinimum(NpMaximum(a, lo), hi)

\* numpy.clip(self.returns, None, self.max_returns)
LpPotClip(rets, maxr) == [i \in Tasks |-> NpMinimum(rets[i], maxr[i])]

\* numpy.clip(self.returns, self.min_returns, self.max_returns)
MinMaxClip(rets, minr, maxr) == [i \in Tasks |-> NpClip(rets[i], minr[i], maxr[i])]

\* a_lps + pot_coef * (max_returns - returns)
LpPotAttentions(l, rets, maxr, pc) ==
  [i \in Tasks |-> RAdd(RAbs(l[i]), RMul(pc, RSub(maxr[i], rets[i])))]

\* (returns - min_returns) / (max_returns - min_returns)
Rates(rets, minr, maxr) ==
  [i \in Tasks |-> RDiv(RSub(rets[i], minr[i]), RSub(maxr[i], minr[i]))]

\* filters / anc_mrs: 1, or the smallest rate among the ancestors
AncestorGate(rates, g) ==
  [i \in Tasks |-> IF Ancestors(g, i) # {} THEN AMinOver(rates, Ancestors(g, i))
                   ELSE R(1)]

\* succ_mrs: 0, or the smallest rate among the direct successors
SuccessorGate(rates, g) ==
  [i \in Tasks |-> IF Successors(g, i) # {} THEN AMinOver(rates, Successors(g, i))
                   ELSE R(0)]

\* na_lps: a_lps / amax(a_lps) if amax(a_lps) != 0 else a_lps
NormalizedAbsLps(l) ==
  LET a_lps == [i \in Tasks |-> RAbs(l[i])]
      top == AMaxOver(a_lps, Tasks)
  IN  IF top # R(0) THEN [i \in Tasks |-> RDiv(a_lps[i], top)] ELSE a_lps

\* na_lps + pot_coef * (1 - mrs)
LearningStates(na_lps, mrs, pc) ==
  [i \in Tasks |-> RAdd(na_lps[i], RMul(pc, RSub(R(1), mrs[i])))]

\* anc_mrs**power * learning_states * (1 - succ_mrs)
NlpPotMancRdAttentions(anc_mrs, learning_states, succ_mrs, pw) ==
  [i \in Tasks |->
     RMul(RMul(RPow(anc_mrs[i], pw), learning_states[i]),
          RSub(R(1), succ_mrs[i]))]

\* one visit of the redistribution loop: e gives the share t of its attention
RedistributeFrom(att, e, g, t) ==
  LET predecessors == Predecessors(g, e)
      attention_to_transfer == RMul(att[e], t)
      a1 == [att EXCEPT ![e] = RSub(att[e], attention_to_transfer)]
  IN  IF Cardinality(predecessors) > 0
      THEN [j \in Tasks |->
              IF j \in predecessors
              THEN RAdd(a1[j], RDiv(attention_to_transfer,
                                    R(Cardinality(predecessors))))
              ELSE a1[j]]
      ELSE a1

RECURSIVE Redistribute(_, _, _, _)
\* the loop over reversed(topological_sort(G)); order is what is left to visit
Redistribute(att, order, g, t) ==
  IF order = <<>> THEN att
  ELSE Redistribute(RedistributeFrom(att, Head(order), g, t), Tail(order), g, t)

(***************************************************************************)
(* Construction.                                                           *)
(***************************************************************************)
Zeros == [i \in Tasks |-> R(0)]

Attributes == {"returns", "max_returns", "saved_max_returns", "min_returns",
               "saved_min_returns", "attentions", "filtered_attentions",
               "rd_attentions"}

\* LpPotDistComputer.__init__: saved_max_returns is a view of max_returns
LpPotRefs ==
  [a \in Attributes |->
     CASE a = "returns" -> "b_returns"
       [] a \in {"max_returns", "saved_max_returns"} -> "b_max_returns"
       [] OTHER -> None]

\* LpPotRrDistComputer.__init__ and NlpPotMancRdDistComputer.__init__:
\* min_returns is a view of returns, saved_min_returns a view of min_returns,
\* saved_max_returns a view of max_returns
MinMaxRefs ==
  [a \in Attributes |->
     CASE a \in {"returns", "min_returns", "saved_min_returns"} -> "b_returns"
       [] a \in {"max_returns", "saved_max_returns"} -> "b_max_returns"
       [] OTHER -> None]

Buffers == {"b_returns", "b_max_returns", "b_clip", "b_attentions", "b_filtered"}

InitMem(init_returns, init_max_returns) ==
  [b \in Buffers |->
     CASE b = "b_returns" -> [i \in Tasks |-> R(init_returns)]
       [] b = "b_max_returns" -> [i \in Tasks |-> R(init_max_returns)]
       [] OTHER -> Zeros]

\* the wrapper is not part of a computer's run
MEnvIdle ==
  /\ env_id = None /\ env = None /\ returnn = None /\ returns = <<>>
  /\ dist = <<>> /\ menv_lps = None /\ configured = FALSE
  /\ compute_lp_arg = None /\ rewards = <<>> /\ since_update = <<>>
  /\ op = "none"

\* the forward edges: every acyclic graph is one of their subsets, up to the
\* numbering of the tasks
ForwardEdges == {e \in Tasks \X Tasks : e[1] < e[2]}

\* the chain 0 -> 1 -> ... and the graph whose last task has every other task
\* as a direct predecessor
Chain == {e \in ForwardEdges : e[2] = e[1] + 1}
Join == {e \in ForwardEdges : e[2] = NumEnvs - 1}

\* the constructors check none of their arguments: kinds, graphs, trs,
\* pot_coefs, powers and inits are the values the caller may pass (inits for
\* init_returns; init_max_returns is not smaller, and at least 1)
DcInit(kinds, graphs, trs, pot_coefs, powers, inits) ==
  /\ kind \in kinds
  /\ call_returns = [i \in Tasks |-> None]
  /\ K \in 1 .. MaxK
  /\ G \in (IF kind = "LpPot" THEN {{}} ELSE graphs)
  /\ tr \in (IF kind = "NlpPotMancRd" THEN trs ELSE {R(0)})
  /\ power \in (IF kind = "NlpPotMancRd" THEN powers ELSE {0})
  /\ pot_coef \in pot_coefs
  /\ step = 0
  /\ return_hists = [i \in Tasks |-> <<>>]
  /\ \E init_returns \in inits :
       \E init_max_returns \in (IF init_returns > 1 THEN init_returns ELSE 1) .. MaxRet :
         mem = InitMem(init_returns, init_max_returns)
  /\ ref = IF kind = "LpPot" THEN LpPotRefs ELSE MinMaxRefs
  /\ lps = Zeros
  /\ pre_attentions = Zeros
  /\ create_dist_arg = Zeros
  /\ MEnvIdle

(***************************************************************************)
(* __call__ of the three computers. rets is the returns mapping; l is what *)
(* compute_lp() returns and order what nx.topological_sort(G) returns,     *)
(* each chosen where the code calls it.                                    *)
(***************************************************************************)
\* the returns mappings a call may receive: at most one value per task
ReturnsMappings == [Tasks -> {None} \cup {R(v) : v \in 0 .. MaxRet}]

\* what the learning-progress estimator may return
LpsVectors == {[i \in Tasks |-> R(0)], [i \in Tasks |-> R(i - 1)]}

LpPotCall(rets) ==
  \E ing \in {DistComputerCall(return_hists, step, rets)} :
  \E m1 \in {LpPotUpdateReturns(mem, ref, ing.return_hists, K, 0)} :
  \E clipped \in {LpPotClip(m1[ref.returns], m1[ref.max_returns])} :
  \E l \in LpsVectors :
  \E attentions \in {LpPotAttentions(l, clipped, m1[ref.max_returns], pot_coef)} :
    /\ step' = ing.step
    /\ return_hists' = ing.return_hists
    /\ mem' = [m1 EXCEPT !["b_clip"] = clipped, !["b_attentions"] = attentions]
    /\ ref' = [ref EXCEPT !.returns = "b_clip", !.attentions = "b_attentions"]
    /\ lps' = l
    /\ call_returns' = rets
    /\ pre_attentions' = attentions
    /\ create_dist_arg' = attentions

LpPotRrCall(rets) ==
  \E ing \in {DistComputerCall(return_hists, step, rets)} :
  \E m1 \in {LpPotRrUpdateReturns(mem, ref, ing.return_hists, K, 0)} :
  \E minr \in {m1[ref.min_returns]}, maxr \in {m1[ref.max_returns]} :
  \E clipped \in {MinMaxClip(m1[ref.returns], minr, maxr)} :
  \E l \in LpsVectors :
  \E rrs \in {Rates(clipped, minr, maxr)} :
  \E filters \in {AncestorGate(rrs, G)} :
  \E attentions \in {LpPotAttentions(l, clipped, maxr, pot_coef)} :
  \E filtered \in {[i \in Tasks |-> RMul(attentions[i], filters[i])]} :
    /\ step' = ing.step
    /\ return_hists' = ing.return_hists
    /\ mem' = [m1 EXCEPT !["b_clip"] = clipped, !["b_attentions"] = attentions,
                         !["b_filtered"] = filtered]
    /\ ref' = [ref EXCEPT !.returns = "b_clip", !.attentions = "b_attentions",
                          !.filtered_attentions = "b_filtered"]
    /\ lps' = l
    /\ call_returns' = rets
    /\ pre_attentions' = attentions
    /\ create_dist_arg' = filtered

NlpPotMancRdCall(rets) ==
  \E ing \in {DistComputerCall(return_hists, step, rets)} :
  \E m1 \in {NlpPotMancRdUpdateReturns(mem, ref, ing.return_hists, K, 0)} :
  \E minr \in {m1[ref.min_returns]}, maxr \in {m1[ref.max_returns]} :
  \E clipped \in {MinMaxClip(m1[ref.returns], minr, maxr)} :
  \E l \in LpsVectors :
  \E na_lps \in {NormalizedAbsLps(l)}, mrs \in {Rates(clipped, minr, maxr)} :
  \E anc_mrs \in {AncestorGate(mrs, G)}, succ_mrs \in {SuccessorGate(mrs, G)} :
  \E learning_states \in {LearningStates(na_lps, mrs, pot_coef)} :
  \E attentions \in
       {NlpPotMancRdAttentions(anc_mrs, learning_states, succ_mrs, power)} :
  \E order \in TopologicalSorts(G) :
  \* rd_attentions = attentions[:] is a view: the pass writes the buffer that
  \* self.attentions reads
  \E rd_attentions \in {Redistribute(attentions, Reversed(order), G, tr)} :
    /\ step' = ing.step
    /\ return_hists' = ing.return_hists
    /\ mem' = [m1 EXCEPT !["b_clip"] = clipped, !["b_attentions"] = rd_attentions]
    /\ ref' = [ref EXCEPT !.returns = "b_clip", !.attentions = "b_attentions",
                          !.rd_attentions = "b_attentions"]
    /\ lps' = l
    /\ call_returns' = rets
    /\ pre_attentions' = attentions
    /\ create_dist_arg' = rd_attentions

CallLpPot ==
  /\ kind = "LpPot" /\ step < MaxStep
  /\ \E rets \in ReturnsMappings : LpPotCall(rets)
  /\ UNCHANGED <<kind, K, G, tr, pot_coef, power, menvVars>>

CallLpPotRr ==
  /\ kind = "LpPotRr" /\ step < MaxStep
  /\ \E rets \in ReturnsMappings : LpPotRrCall(rets)
  /\ UNCHANGED <<kind, K, G, tr, pot_coef, power, menvVars>>

CallNlpPotMancRd ==
  /\ kind = "NlpPotMancRd" /\ step < MaxStep
  /\ \E rets \in ReturnsMappings : NlpPotMancRdCall(rets)
  /\ UNCHANGED <<kind, K, G, tr, pot_coef, power, menvVars>>

Init ==
  DcInit({"LpPot", "LpPotRr", "NlpPotMancRd"}, {Chain, Join},
         {<<1, 2>>}, {R(1)}, {0, 1}, {0})

Next == CallLpPot \/ CallLpPotRr \/ CallNlpPotMancRd

Spec == Init /\ [][Next]_vars

(***************************************************************************)
(* Longer runs of LpPotRrDistComputer: K + 1 calls from construction, each *)
(* with a returns mapping of at most one task, from any initial values.    *)
(***************************************************************************)
SingleTaskMappings ==
  {rets \in ReturnsMappings : Cardinality({i \in Tasks : rets[i] # None}) <= 1}

CallLpPotRrSingle ==
  /\ kind = "LpPotRr" /\ step < K + 1
  /\ \E rets \in SingleTaskMappings : LpPotRrCall(rets)
  /\ UNCHANGED <<kind, K, G, tr, pot_coef, power, menvVars>>

InitSingle == DcInit({"LpPotRr"}, {Chain, Join}, {R(0)}, {R(1)}, {0}, {0, 1})

NextSingle == CallLpPotRrSingle

SpecSingle == InitSingle /\ [][NextSingle]_vars

(***************************************************************************)
(* NlpPotMancRdDistComputer constructed with any transfer ratio the caller *)
(* passes, 3/2 included: __init__ stores its arguments as they are.        *)
(***************************************************************************)
InitAnyRatio ==
  DcInit({"NlpPotMancRd"}, {Chain}, {<<1, 2>>, <<3, 2>>}, {R(1)}, {1}, {0})

NextAnyRatio == CallNlpPotMancRd

SpecAnyRatio == InitAnyRatio /\ [][NextAnyRatio]_vars

(***************************************************************************)
(* The multi-environment wrapper MEnv (src/menv/menv.py).                  *)
(***************************************************************************)
\* bounds of the wrapper's runs
\* number of returns that may be pending, over all tasks
MaxPending == 2
\* number of steps of one episode
MaxEpisodeLen == 2

\* self.envs = list(self.G.nodes): the task objects
envs == [i \in Tasks |-> <<"env", i>>]

\* the rewards a task's step may return
Rewards == {R(-1), R(2)}

\* the distributions compute_dist may return: non-negative, summing to 1
Dists == {d \in [Tasks -> {R(0), <<1, 2>>, R(1)}] : SumOver(d, Tasks) = R(1)}

\* numpy.ones((num_envs)) / num_envs
UniformDist == [i \in Tasks |-> RDiv(R(1), R(NumEnvs))]

\* _reset_returns: an empty list for every task id
ResetReturns == [i \in Tasks |-> <<>>]

\* a bug: the last pending return instead of the mean
SynthesizeReturnsLast(rs) ==
  [i \in Tasks |-> IF Len(rs[i]) > 0 THEN rs[i][Len(rs[i])] ELSE None]

\* _synthesize_returns: the mean of every non-empty list; a task with an empty
\* list is no key of the result (None)
SynthesizeReturns(rs) ==
  [i \in Tasks |-> IF Len(rs[i]) > 0 THEN NpMean(rs[i]) ELSE None]

\* a bug: the draw ignores the weights
SelectEnvAny(d) == Tasks

\* numpy.random.choice(range(num_envs), p=dist): the indices it may draw
SelectEnv(d) == {i \in Tasks : RLt(R(0), d[i])}

\* what reset() leaves in self.returns: the accumulator is appended to the
\* active task's list unless it is None
ResetFlush(rs, id, acc) ==
  IF acc # None THEN [rs EXCEPT ![id] = Append(@, acc)] ELSE rs

\* a bug: the reward replaces the accumulator
StepOverwrite(acc, reward) == reward

\* what step() leaves in self.returnn
StepAccumulate(acc, reward) == RAdd(acc, reward)

RECURSIVE SumLens(_, _)
SumLens(rs, S) == IF S = {} THEN 0
                  ELSE LET i == CHOOSE j \in S : TRUE
                       IN  Len(rs[i]) + SumLens(rs, S \ {i})

\* the number of pending returns
PendingCount == SumLens(returns, Tasks)

MEnvInit ==
  /\ env = None /\ env_id = None /\ returnn = None
  /\ returns = ResetReturns
  /\ menv_lps = None
  /\ dist = UniformDist
  /\ configured \in BOOLEAN
  /\ compute_lp_arg = None
  /\ rewards = <<>>
  /\ since_update = ResetReturns
  /\ op = "__init__"
  \* no distribution computer is part of the wrapper's run
  /\ kind = "none" /\ K = 0 /\ G = {} /\ tr = R(0) /\ pot_coef = R(0)
  /\ power = 0 /\ step = 0 /\ return_hists = <<>> /\ mem = <<>> /\ ref = <<>>
  /\ lps = <<>> /\ pre_attentions = <<>> /\ create_dist_arg = <<>>
  /\ call_returns = <<>>

\* reset(); the first one is the last statement of __init__
MEnvReset ==
  /\ PendingCount < MaxPending
  /\ returns' = ResetFlush(returns, env_id, returnn)
  /\ since_update' = IF returnn # None
                     THEN [since_update EXCEPT ![env_id] = Append(@, returnn)]
                     ELSE since_update
  /\ returnn' = R(0)
  /\ \E i \in SelectEnv(dist) : env_id' = i /\ env' = envs[i]
  /\ rewards' = <<>>
  /\ compute_lp_arg' = None
  /\ op' = "reset"
  /\ UNCHANGED <<dist, menv_lps, configured, dcVars>>

\* step(action): the task returns some reward
MEnvStep ==
  /\ returnn # None
  /\ Len(rewards) < MaxEpisodeLen
  /\ \E reward \in Rewards :
       /\ returnn' = StepAccumulate(returnn, reward)
       /\ rewards' = Append(rewards, reward)
  /\ compute_lp_arg' = None
  /\ op' = "step"
  /\ UNCHANGED <<env_id, env, returns, dist, menv_lps, configured,
                 since_update, dcVars>>

\* a bug (or another design): update_dist() flushes the accumulator of the
\* episode in progress before it synthesizes the returns
MEnvUpdateDistFlushing ==
  /\ returnn # None
  /\ configured
  /\ compute_lp_arg' = SynthesizeReturns(ResetFlush(returns, env_id, returnn))
  /\ \E l \in LpsVectors : menv_lps' = l
  /\ \E d \in Dists : dist' = d
  /\ returns' = ResetReturns
  /\ since_update' = ResetReturns
  /\ op' = "update_dist"
  /\ UNCHANGED <<env_id, env, returnn, configured, rewards, dcVars>>

\* update_dist() with compute_lp and compute_dist configured
MEnvUpdateDist ==
  /\ returnn # None
  /\ configured
  /\ compute_lp_arg' = SynthesizeReturns(returns)
  /\ \E l \in LpsVectors : menv_lps' = l
  /\ \E d \in Dists : dist' = d
  /\ returns' = ResetReturns
  /\ since_update' = ResetReturns
  /\ op' = "update_dist"
  /\ UNCHANGED <<env_id, env, returnn, configured, rewards, dcVars>>

\* a bug: the collaborators are called without the test that they are there
MEnvUpdateDistUnconfiguredCalls ==
  /\ returnn # None
  /\ ~configured
  /\ compute_lp_arg' = SynthesizeReturns(returns)
  /\ \E l \in LpsVectors : menv_lps' = l
  /\ \E d \in Dists : dist' = d
  /\ returns' = ResetReturns
  /\ since_update' = ResetReturns
  /\ op' = "update_dist"
  /\ UNCHANGED <<env_id, env, returnn, configured, rewards, dcVars>>

\* a bug: _reset_returns() is made only when the collaborators are configured
MEnvUpdateDistUnconfiguredKeeps ==
  /\ returnn # None
  /\ ~configured
  /\ compute_lp_arg' = None
  /\ op' = "update_dist"
  /\ UNCHANGED <<env_id, env, returnn, returns, since_update, dist, menv_lps,
                 configured, rewards, dcVars>>

\* update_dist() with compute_lp or compute_dist missing
MEnvUpdateDistUnconfigured ==
  /\ returnn # None
  /\ ~configured
  /\ returns' = ResetReturns
  /\ since_update' = ResetReturns
  /\ compute_lp_arg' = None
  /\ op' = "update_dist"
  /\ UNCHANGED <<env_id, env, returnn, dist, menv_lps, configured,
                 rewards, dcVars>>

\* render(mode): forwarded to the active task
MEnvRender ==
  /\ returnn # None
  /\ compute_lp_arg' = None
  /\ op' = "render"
  /\ UNCHANGED <<env_id, env, returnn, returns, dist, menv_lps, configured,
                 rewards, since_update, dcVars>>

MEnvNext ==
  \/ MEnvReset \/ MEnvStep \/ MEnvRender
  \/ MEnvUpdateDist \/ MEnvUpdateDistUnconfigured

SpecMEnv == MEnvInit /\ [][MEnvNext]_vars

(***************************************************************************)
(* The attributes of a distribution computer, read through the buffers.    *)
(***************************************************************************)
HasMin == kind \in {"LpPotRr", "NlpPotMancRd"}
IsComputer == kind \in {"LpPot", "LpPotRr", "NlpPotMancRd"}
max_returns == mem[ref.max_returns]
min_returns == mem[ref.min_returns]
saved_max_returns == mem[ref.saved_max_returns]
saved_min_returns == mem[ref.saved_min_returns]
\* self.returns of a computer
dc_returns == mem[ref.returns]
\* self.attentions (set by the first call)
attentions == mem[ref.attentions]
\* self.mrs (self.rrs), self.anc_mrs (self.filters) and self.succ_mrs as the
\* last call computed them: from the returns and the bounds it has left
mrs == Rates(dc_returns, min_returns, max_returns)
anc_mrs == AncestorGate(mrs, G)
succ_mrs == SuccessorGate(mrs, G)

(***************************************************************************)
(* Claims about the distribution computers (specification Spec).           *)
(***************************************************************************)
\* C1: the redistribution pass conserves the total attention: the sum of the
\* attentions handed to create_dist equals the sum of the pre-attentions.
\* (Stated for calls whose pre-attentions are numbers.) The code violates it.
C1_AttentionMassConserved ==
  (kind = "NlpPotMancRd" /\ step > 0 /\ \A i \in Tasks : ~IsNaN(pre_attentions[i]))
    => SumOver(create_dist_arg, Tasks) = SumOver(pre_attentions, Tasks)

\* C2: in every call of every computer, max_returns[i] after the call is not
\* smaller than before, for every task i.
C2_MaxReturnsNonDecreasing ==
  [][IsComputer =>
       \A i \in Tasks : RLeq(max_returns[i], (max_returns[i])')]_vars

\* a task whose maximum went up with a first return above it and stayed there
\* when a lower return followed, next to a task that never received a return
C2_Witness ==
  /\ IsComputer
  /\ \E i, j \in Tasks :
       /\ Len(return_hists[i]) = 2
       /\ return_hists[i][1][2] = R(2) /\ return_hists[i][2][2] = R(0)
       /\ max_returns[i] = R(2)
       /\ return_hists[j] = <<>> /\ max_returns[j] = R(1)

\* C3: in every call (the first one included) of LpPotRrDistComputer and
\* NlpPotMancRdDistComputer, min_returns[i] after the call is not larger than
\* before, for every task i. The code violates it.
C3_MinReturnsNonIncreasing ==
  [][HasMin => \A i \in Tasks : RLeq((min_returns[i])', min_returns[i])]_vars

\* C4: saved_min_returns[i] and saved_max_returns[i] change in a call only if
\* the last K entries of task i's history are at least K entries. The code
\* violates it.
C4_SavedBoundsNeedFullWindow ==
  [][IsComputer =>
       \A i \in Tasks :
         (\/ (saved_max_returns[i])' # saved_max_returns[i]
          \/ (HasMin /\ (saved_min_returns[i])' # saved_min_returns[i]))
           => Len(HistLast(return_hists'[i], K)) >= K]_vars

\* C9: chain 0 -> 1 -> 2, tr = 1/2, pre-attentions [1, 1, 1]: the attentions
\* handed to create_dist are [7/4, 3/4, 1/2]. The code violates it.
C9_ChainScenario ==
  (/\ kind = "NlpPotMancRd" /\ step > 0
   /\ G = {<<0, 1>>, <<1, 2>>} /\ tr = <<1, 2>>
   /\ pre_attentions = [i \in Tasks |-> R(1)])
    => create_dist_arg = [i \in Tasks |->
                            CASE i = 0 -> <<7, 4>> [] i = 1 -> <<3, 4>>
                              [] OTHER -> <<1, 2>>]

\* C10: a call increments step by one and appends exactly one entry
\* <<new step, value>> to the history of every task of the returns mapping;
\* the other histories are unchanged; so the rounds of a history increase
\* strictly and never exceed step.
C10_HistoriesAppendOnly ==
  /\ [](IsComputer =>
          \A i \in Tasks : \A j \in 1 .. Len(return_hists[i]) :
            /\ return_hists[i][j][1] <= step
            /\ j > 1 => return_hists[i][j - 1][1] < return_hists[i][j][1])
  /\ [][IsComputer =>
          /\ step' = step + 1
          /\ \A i \in Tasks :
               IF call_returns'[i] = None
               THEN return_hists'[i] = return_hists[i]
               ELSE return_hists'[i] =
                      Append(return_hists[i], <<step', call_returns'[i]>>)]_vars

\* after two calls: a task recorded in both, a task recorded in the second
\* only, and a task never recorded
C10_Witness ==
  /\ IsComputer /\ step = 2
  /\ \E i, j, k \in Tasks :
       /\ Len(return_hists[i]) = 2
       /\ Len(return_hists[j]) = 1 /\ return_hists[j][1][1] = 2
       /\ return_hists[k] = <<>>

(***************************************************************************)
(* Claims about the wrapper (specification SpecMEnv).                      *)
(***************************************************************************)
\* C5: every reset() appends exactly one value, the sum of the rewards of the
\* steps since the previous reset, to the pending list of the task that was
\* active, and to no other list, and leaves returnn = 0; the reset made by
\* the constructor appends nothing.
C5_ResetFlushesEpisodeReturn ==
  [][op' = "reset" =>
       /\ returnn' = R(0)
       /\ IF op = "__init__"
          THEN returns' = returns
          ELSE returns' = [returns EXCEPT ![env_id] = Append(@, SeqSum(rewards))]]_vars

\* a reset has flushed the return of an episode of two steps
C5_Witness ==
  /\ op = "reset"
  /\ \E i \in Tasks : Len(returns[i]) > 0 /\ returns[i][Len(returns[i])] = R(4)

\* C6 as claimed: update_dist() called during an episode appends the return
\* accumulated so far to the active task's pending list and includes it in
\* the aggregate handed on. The code does not do this.
C6_UpdateFlushesAccumulator ==
  [][(op' = "update_dist" /\ configured /\ rewards # <<>>) =>
       /\ compute_lp_arg'[env_id] # None
       /\ RMul(compute_lp_arg'[env_id], R(Len(returns[env_id]) + 1))
            = RAdd(SeqSum(returns[env_id]), returnn)]_vars

\* C6 as amended: update_dist() does not flush the accumulator: returnn keeps
\* its value, the aggregate of the active task is made of its pending returns
\* alone (none, if it has none), and a pending list grows only in reset().
C6_OnlyResetFlushesAccumulator ==
  [][/\ op' = "update_dist" =>
          /\ returnn' = returnn
          /\ configured =>
               IF returns[env_id] = <<>>
               THEN compute_lp_arg'[env_id] = None
               ELSE /\ compute_lp_arg'[env_id] # None
                    /\ RMul(compute_lp_arg'[env_id], R(Len(returns[env_id])))
                         = SeqSum(returns[env_id])
     /\ (\E i \in Tasks : Len(returns'[i]) > Len(returns[i])) => op' = "reset"]_vars

\* update_dist() ran during an episode with a non-zero accumulated return, and
\* the active task is no key of the mapping handed on
C6_Witness ==
  /\ op = "update_dist" /\ configured
  /\ rewards # <<>> /\ returnn # R(0)
  /\ compute_lp_arg # None /\ compute_lp_arg[env_id] = None

\* C7: the mapping update_dist() hands on has as keys exactly the tasks that
\* received a pending return since the previous update_dist, each mapped to
\* the arithmetic mean of those returns.
C7_AggregateIsMeanOfPending ==
  [][(op' = "update_dist" /\ configured) =>
       \A i \in Tasks :
         IF since_update[i] = <<>>
         THEN compute_lp_arg'[i] = None
         ELSE /\ compute_lp_arg'[i] # None
              /\ RMul(compute_lp_arg'[i], R(Len(since_update[i])))
                   = SeqSum(since_update[i])]_vars

\* an update handed on the mean 1/2 of two returns for one task and nothing
\* for another
C7_Witness ==
  /\ op = "update_dist" /\ compute_lp_arg # None
  /\ \E i, j \in Tasks :
       compute_lp_arg[i] = <<1, 2>> /\ compute_lp_arg[j] = None

\* C8: every reset() selects a task index i with dist[i] > 0 and makes
\* envs[i] the active task; with the distribution [1, 0, ...] it selects
\* task 0.
C8_ResetSelectsWeightedTask ==
  [][op' = "reset" =>
       /\ env_id' \in Tasks
       /\ RLt(R(0), dist[env_id'])
       /\ env' = envs[env_id']
       /\ dist[0] = R(1) => env_id' = 0]_vars

\* under the distribution [1, 0, ...] two episodes in a row ran on task 0
C8_Witness ==
  /\ op = "reset" /\ dist[0] = R(1) /\ env_id = 0
  /\ Len(returns[0]) = 2

\* C17: dist starts uniform (1/N for each task) and lps starts None; only an
\* update_dist() with compute_lp and compute_dist configured changes them:
\* step(), reset(), render() and an unconfigured update_dist() leave them
\* unchanged, and the unconfigured update_dist() calls no collaborator.
C17_OnlyConfiguredUpdateChangesDist ==
  /\ [](op = "__init__" =>
          /\ menv_lps = None
          /\ \A i \in Tasks : RMul(dist[i], R(NumEnvs)) = R(1))
  /\ [][/\ (dist' # dist \/ menv_lps' # menv_lps)
             => (op' = "update_dist" /\ configured)
        /\ (op' = "update_dist" /\ ~configured) => compute_lp_arg' = None]_vars

\* a configured wrapper whose distribution is no longer uniform is rendered
\* in the middle of an episode
C17_Witness ==
  /\ op = "render" /\ configured
  /\ dist # UniformDist /\ menv_lps # None
  /\ rewards # <<>>

\* C18: after every update_dist(), configured or not, self.returns has every
\* task id as a key and every list is empty.
C18_UpdateClearsPending ==
  [][op' = "update_dist" =>
       /\ DOMAIN returns' = Tasks
       /\ \A i \in Tasks : returns'[i] = <<>>]_vars

\* an update has handed on the aggregate of one task and nothing for
\* another, and the buffers of both are empty
C18_Witness ==
  /\ op = "update_dist" /\ compute_lp_arg # None
  /\ \E i, j \in Tasks :
       /\ compute_lp_arg[i] # None /\ compute_lp_arg[j] = None
       /\ returns[i] = <<>> /\ returns[j] = <<>>

(***************************************************************************)
(* More claims about the distribution computers (specification Spec).      *)
(***************************************************************************)
\* C11: a call with an empty returns mapping, in any reachable state,
\* increments step and leaves every history, returns[i], min_returns[i],
\* max_returns[i], saved_min_returns[i] and saved_max_returns[i] unchanged;
\* when the estimator returns what it returned in the previous call (it is a
\* function of the histories, which are the same), the stored attentions and
\* the array handed to create_dist are unchanged too.
C11_EmptyCallChangesNothing ==
  [][(IsComputer /\ call_returns' = [i \in Tasks |-> None]) =>
       /\ step' = step + 1
       /\ return_hists' = return_hists
       /\ dc_returns' = dc_returns
       /\ max_returns' = max_returns
       /\ saved_max_returns' = saved_max_returns
       /\ HasMin => /\ min_returns' = min_returns
                    /\ saved_min_returns' = saved_min_returns
       /\ (step > 0 /\ lps' = lps) =>
            /\ attentions' = attentions
            /\ create_dist_arg' = create_dist_arg]_vars

\* an empty call came after a call that recorded a return above the initial
\* maximum for one task and nothing for another
C11_Witness ==
  /\ HasMin /\ step = 2
  /\ call_returns = [i \in Tasks |-> None]
  /\ \E i, j \in Tasks :
       /\ Len(return_hists[i]) = 1 /\ return_hists[i][1][2] = R(2)
       /\ max_returns[i] = R(2) /\ max_returns[j] = R(1)
       /\ return_hists[j] = <<>>

\* C12: for LpPotRrDistComputer and NlpPotMancRdDistComputer constructed
\* with init_returns <= init_max_returns, in every reachable state and for
\* every task i: saved_min_returns[i] <= min_returns[i] <= max_returns[i]
\* <= saved_max_returns[i].
C12_BoundsOrdered ==
  HasMin =>
    \A i \in Tasks :
      /\ RLeq(saved_min_returns[i], min_returns[i])
      /\ RLeq(min_returns[i], max_returns[i])
      /\ RLeq(max_returns[i], saved_max_returns[i])

\* after two calls, a task with two returns whose bounds are apart and whose
\* minimum has left the initial value, with a window that is not full
C12_Witness ==
  /\ HasMin /\ step = 2 /\ K = 2
  /\ \E i \in Tasks :
       /\ Len(return_hists[i]) = 1
       /\ min_returns[i] = R(1) /\ max_returns[i] = R(2)

\* C13: after any sequence of calls of any of the three computers, every
\* attention handed to create_dist is non-negative, given pot_coef >= 0,
\* power >= 0, tr in [0, 1], init_returns <= init_max_returns and
\* max_returns[i] > min_returns[i] for every task.
C13_AttentionsNonNegative ==
  (/\ IsComputer /\ step > 0
   /\ RLeq(R(0), pot_coef) /\ power >= 0
   /\ RLeq(R(0), tr) /\ RLeq(tr, R(1))
   /\ HasMin => \A i \in Tasks : RLt(min_returns[i], max_returns[i]))
    => \A i \in Tasks : RLeq(R(0), create_dist_arg[i])

\* a redistributing computer after two calls with a negative learning
\* progress, bounds apart for every task, a task with returns and one whose
\* attention is zero
C13_Witness ==
  /\ kind = "NlpPotMancRd" /\ step = 2
  /\ \A i \in Tasks : RLt(min_returns[i], max_returns[i])
  /\ \E i \in Tasks : RLt(lps[i], R(0))
  /\ \E i \in Tasks : Len(return_hists[i]) = 2
  /\ \E i, j \in Tasks : create_dist_arg[i] = R(0) /\ RLt(R(0), create_dist_arg[j])

\* C15: after every call, a task with no ancestors in G has the ancestor gate
\* 1 (anc_mrs, filters) and a task with no direct successors has the
\* successor gate 0 (succ_mrs), whatever the rates of the other tasks are.
C15_GateDefaults ==
  (HasMin /\ step > 0) =>
    \A i \in Tasks :
      /\ (~ \E u \in Tasks : <<u, i>> \in G) => anc_mrs[i] = R(1)
      /\ (kind = "NlpPotMancRd" /\ ~ \E w \in Tasks : <<i, w>> \in G)
           => succ_mrs[i] = R(0)

\* a chain whose first task has an undefined rate (0/0) and the gate 1, whose
\* middle task is gated by it, and whose last task has the successor gate 0
\* while the first has another
C15_Witness ==
  /\ kind = "NlpPotMancRd" /\ step > 0 /\ G = Chain
  /\ IsNaN(mrs[0]) /\ anc_mrs[0] = R(1) /\ anc_mrs[1] # R(1)
  /\ succ_mrs[NumEnvs - 1] = R(0) /\ succ_mrs[0] # R(0)

RECURSIVE PassTotal(_, _, _, _)
\* what task e holds when the pass visits it, if it is visited once and after
\* all its direct successors: its pre-attention plus, from each direct
\* successor s, the share t of what s held, divided by the number of direct
\* predecessors of s
PassTotal(pre, g, t, e) ==
  LET share == [s \in Tasks |->
                  IF <<e, s>> \in g
                  THEN RDiv(RMul(PassTotal(pre, g, t, s), t),
                            R(Cardinality({u \in Tasks : <<u, s>> \in g})))
                  ELSE R(0)]
  IN  RAdd(pre[e], SumOver(share, {s \in Tasks : <<e, s>> \in g}))

\* C19: the redistribution pass is one sweep in which every task is visited
\* once, after all its direct successors; a visited task transfers tr times
\* (its pre-attention plus the shares its successors gave it in this pass),
\* split equally among its direct predecessors, and keeps the rest.
C19_SingleSweep ==
  (kind = "NlpPotMancRd" /\ step > 0) =>
    \A e \in Tasks :
      create_dist_arg[e] =
        RSub(PassTotal(pre_attentions, G, tr, e),
             RMul(PassTotal(pre_attentions, G, tr, e), tr))

\* the last task has the two others as direct predecessors: from the
\* pre-attentions [1, 1, 1] and tr = 1/2 each of them receives 1/4 and keeps
\* 5/8
C19_Witness ==
  /\ kind = "NlpPotMancRd" /\ step > 0 /\ G = Join /\ tr = <<1, 2>>
  /\ pre_attentions = [i \in Tasks |-> R(1)]
  /\ create_dist_arg = [i \in Tasks |->
                          IF i = NumEnvs - 1 THEN <<1, 2>> ELSE <<5, 8>>]

\* C20: after every call, for every task i, fed in the call or not:
\* returns[i] <= max_returns[i], and for LpPotRrDistComputer and
\* NlpPotMancRdDistComputer also min_returns[i] <= returns[i], given
\* init_returns <= init_max_returns.
C20_ReturnsWithinBounds ==
  (IsComputer /\ step > 0) =>
    \A i \in Tasks :
      /\ RLeq(dc_returns[i], max_returns[i])
      /\ HasMin => RLeq(min_returns[i], dc_returns[i])

\* K = 2: a task whose last return 2 is above the mean 1 of its window was
\* clipped to the maximum 1, next to a task that never received a return
C20_Witness ==
  /\ HasMin /\ step = 2 /\ K = 2
  /\ \E i, j \in Tasks :
       /\ Len(return_hists[i]) = 2 /\ return_hists[i][2][2] = R(2)
       /\ max_returns[i] = R(1) /\ dc_returns[i] = R(1)
       /\ return_hists[j] = <<>> /\ dc_returns[j] = R(0)

(***************************************************************************)
(* The constant-return scenario (specification SpecSingle).                *)
(***************************************************************************)
\* task i received the return c in each of the K + 1 calls made since the
\* construction
ConstantFed(i, c) ==
  /\ kind = "LpPotRr" /\ step = K + 1
  /\ Len(return_hists[i]) = K + 1
  /\ \A j \in 1 .. (K + 1) : return_hists[i][j][2] = c

\* C14 as claimed: from a fresh LpPotRrDistComputer with any initial values,
\* K + 1 consecutive calls that feed the constant c to task i leave
\* min_returns[i] = max_returns[i] = saved_min_returns[i] =
\* saved_max_returns[i] = c. The code does not do this when the initial
\* maximum is above c.
C14_ConstantCollapsesBounds ==
  \A i \in Tasks : \A v \in 0 .. MaxRet :
    ConstantFed(i, R(v)) =>
      /\ min_returns[i] = R(v) /\ max_returns[i] = R(v)
      /\ saved_min_returns[i] = R(v) /\ saved_max_returns[i] = R(v)

\* C14 as amended: the two minima are c; the two maxima are equal and are
\* the larger of init_max_returns[i] and c: every call that feeds c to a
\* task that has received only c leaves max_returns[i] at the larger of its
\* previous value and c.
C14_ConstantSetsMinAndRaisesMax ==
  /\ [](\A i \in Tasks : \A v \in 0 .. MaxRet :
          ConstantFed(i, R(v)) =>
            /\ min_returns[i] = R(v) /\ saved_min_returns[i] = R(v)
            /\ max_returns[i] = saved_max_returns[i]
            /\ RLeq(R(v), max_returns[i]))
  /\ [][\A i \in Tasks :
          (/\ kind = "LpPotRr" /\ call_returns'[i] # None
           /\ \A j \in 1 .. Len(return_hists[i]) :
                return_hists[i][j][2] = call_returns'[i])
            => (max_returns[i])' =
                 IF RLt(max_returns[i], call_returns'[i])
                 THEN call_returns'[i] ELSE max_returns[i]]_vars

\* K = 2: three calls fed 1 to a task whose initial return was 0 and whose
\* initial maximum was 2: the minimum is 1, the maximum still 2
C14_Witness ==
  /\ K = 2
  /\ \E i \in Tasks :
       /\ ConstantFed(i, R(1))
       /\ min_returns[i] = R(1) /\ max_returns[i] = R(2)
       /\ \E j \in Tasks : return_hists[j] = <<>> /\ min_returns[j] = R(0)

(***************************************************************************)
(* Construction with malformed parameters (specification SpecAnyRatio).    *)
(***************************************************************************)
\* a transfer ratio outside [0, 1]
MalformedParameters == RLt(tr, R(0)) \/ RLt(R(1), tr)

\* C16: constructing a computer with malformed parameters fails: no computer
\* object that can be called results. The code violates it: the constructor
\* checks nothing.
C16_MalformedParametersRejected ==
  MalformedParameters => (~IsComputer /\ step = 0)

====
